---- MODULE Spec2Model ----
(***************************************************************************)
(* Booking scheduling and conflict engine of the spa operations console.   *)
(* The in-memory collections live in the Dashboard component, the form and *)
(* the timeline filters in the mounted page (OperationsPage or             *)
(* BookingPage), and every write goes through the external record store.   *)
(***************************************************************************)
EXTENDS Integers, Sequences, FiniteSets, TLC

VARIABLES
    store,              \* rows of the external 'bookings' table, row i has id i
    bookings,           \* Dashboard state: the in-memory booking collection
    net,                \* writes awaiting their continuation (await supabase...)
    nreq,               \* number of writes issued so far
    page,               \* which page component is mounted
    services,           \* Dashboard state: the service catalogue
    currentDate,        \* OperationsPage.currentDate / BookingPage.filterDate
    isModalOpen,
    isEditing,
    currentId,
    formData,
    dialog,             \* outcome of the last alert()/confirm() shown
    filterStartTime,
    filterEndTime,
    showAvailableOnly,
    parked              \* the session of a second operator, out of focus

vars == <<store, bookings, net, nreq, page, services, currentDate, isModalOpen,
          isEditing, currentId, formData, dialog,
          filterStartTime, filterEndTime, showAvailableOnly, parked>>

formVars == <<isModalOpen, isEditing, currentId, formData>>
filterVars == <<filterStartTime, filterEndTime, showAvailableOnly>>

----------------------------------------------------------------------------
(* Bounds of the model *)

NSeed == 6              \* rows already in the store when the session starts
MaxWrites == 1          \* writes issued during the session

(* Program constants *)

TOTAL_ROOMS == 5

----------------------------------------------------------------------------
(* Values *)

PENDING == "Pending"
CONFIRMED == "Confirmed"
IN_PROGRESS == "InProgress"
COMPLETED == "Completed"
CANCELLED == "Cancelled"

BookingStatus == <<PENDING, CONFIRMED, IN_PROGRESS, COMPLETED, CANCELLED>>

Statuses == {BookingStatus[i] : i \in 1..Len(BookingStatus)}

Null == "null"          \* null / undefined of a string-valued field
Undef == -1             \* undefined of a number-valued field
NoId == 0               \* currentId = null
NoSession == [page |-> "none"]   \* no second operator

Range(s) == {s[i] : i \in DOMAIN s}

Max2(a, b) == IF a >= b THEN a ELSE b
Min2(a, b) == IF a <= b THEN a ELSE b

(* Time labels "H:MM" are kept as <<hour, minute>>; "" is <<>>. *)
NoTime == <<>>

(* mutant: the loop without its break at 22:00 *)
generateTimeSlotsNoBreak ==
    [k \in 1..78 |-> <<10 + ((k - 1) \div 6), 10 * ((k - 1) % 6)>>]

generateTimeSlots ==
    LET hm == [k \in 1..78 |-> <<10 + ((k - 1) \div 6), 10 * ((k - 1) % 6)>>]
    IN  SelectSeq(hm, LAMBDA s : ~(s[1] = 22 /\ s[2] > 0))

ALL_TIME_SLOTS == generateTimeSlots

(* BookingPage keeps its own copy of the generator: the h and m loops
   written out, the break leaving the m loop after 22:00 *)
RECURSIVE bookingPageSlots(_, _)
bookingPageSlots(h, m) ==
    IF h > 22 THEN <<>>
    ELSE IF m >= 60 \/ (h = 22 /\ m > 0) THEN bookingPageSlots(h + 1, 0)
    ELSE <<<<h, m>>>> \o bookingPageSlots(h, m + 10)

TIME_SLOTS == bookingPageSlots(10, 0)

timeToMinutes(time) ==
    IF time = NoTime THEN 0 ELSE time[1] * 60 + time[2]

calculateEndTime(startTime, durationMinutes) ==
    IF startTime = NoTime THEN NoTime
    ELSE LET total == (startTime[1] * 60 + startTime[2] + durationMinutes) % 1440
         IN  <<total \div 60, total % 60>>

(* a.time.localeCompare(b.time) < 0: the labels are compared character by
   character; ':' collates before every digit and the end of the string
   before every character. *)
TimeChars(time) ==
    LET d(n) == n + 1
        colon == 0
        eos == -1
        mm == <<d(time[2] \div 10), d(time[2] % 10)>>
    IN  IF time[1] >= 10
        THEN <<d(time[1] \div 10), d(time[1] % 10), colon>> \o mm
        ELSE <<d(time[1]), colon>> \o mm \o <<eos>>

localeCompareLess(a, b) ==
    LET ca == TimeChars(a)
        cb == TimeChars(b)
    IN  \E k \in 1..5 : ca[k] < cb[k] /\ \A j \in 1..(k - 1) : ca[j] = cb[j]

----------------------------------------------------------------------------
(* Reference data held by the Dashboard: services and employees *)

INITIAL_SERVICES ==
    [s10 |-> [duration |-> 30, price |-> 150000, staffCount |-> 0],
     s4  |-> [duration |-> 60, price |-> 400000, staffCount |-> 1]]

ServiceIds == DOMAIN INITIAL_SERVICES

NoServiceId == ""

(* services.find(s => s.id === id) finds a service *)
HasService(id) == id \in ServiceIds

Employees == {"e1", "e2"}

Dates == {<<2024, 1, 7>>, <<2024, 1, 8>>}

FormTimes == {<<10, 0>>, <<10, 30>>}

----------------------------------------------------------------------------
(* Availability evaluator *)

(* mutant: every status but Cancelled counts as blocking *)
isBlockingNotCancelled(status) == status # CANCELLED

isBlocking(status) ==
    status = CONFIRMED \/ status = IN_PROGRESS \/ status = PENDING

(* mutant: only the primary staff id assigns a booking *)
isAssignedPrimaryOnly(b, staffId) == b.staffId = staffId

isAssigned(b, staffId) ==
    (\E k \in DOMAIN b.staffIds : b.staffIds[k] = staffId) \/ b.staffId = staffId

selectedServiceExists == HasService(formData.serviceId)

selectedService == services[formData.serviceId]

(* mutant: a booking without staff does not occupy a room *)
overlappingBookingsStaffed(checkTime, duration) ==
    LET checkStart == timeToMinutes(checkTime)
        checkEnd == checkStart + duration
    IN  {i \in DOMAIN bookings :
            /\ bookings[i].date = formData.date
            /\ ~(isEditing /\ bookings[i].id = currentId)
            /\ isBlocking(bookings[i].status)
            /\ bookings[i].staffIds # <<>>
            /\ LET bStart == timeToMinutes(bookings[i].time)
                   bEnd == bStart + bookings[i].duration
               IN  Max2(checkStart, bStart) < Min2(checkEnd, bEnd)}

(* indices of the bookings getRoomAvailability keeps (OperationsPage) *)
overlappingBookings(checkTime, duration) ==
    LET checkStart == timeToMinutes(checkTime)
        checkEnd == checkStart + duration
    IN  {i \in DOMAIN bookings :
            /\ bookings[i].date = formData.date
            /\ ~(isEditing /\ bookings[i].id = currentId)
            /\ isBlocking(bookings[i].status)
            /\ LET bStart == timeToMinutes(bookings[i].time)
                   bEnd == bStart + bookings[i].duration
               IN  Max2(checkStart, bStart) < Min2(checkEnd, bEnd)}

getRoomAvailability(checkTime, duration) ==
    LET n == Cardinality(overlappingBookings(checkTime, duration))
    IN  [isAvailable |-> n < TOTAL_ROOMS, occupiedCount |-> n]

(* BookingPage keeps its own copy of the checker *)
overlappingBookingsBP(checkTime, duration) ==
    LET checkStart == timeToMinutes(checkTime)
        checkEnd == checkStart + duration
    IN  {i \in DOMAIN bookings :
            /\ bookings[i].date = formData.date
            /\ bookings[i].status # CANCELLED
            /\ ~(isEditing /\ bookings[i].id = currentId)
            /\ LET bStart == timeToMinutes(bookings[i].time)
                   bEnd == bStart + bookings[i].duration
               IN  Max2(checkStart, bStart) < Min2(checkEnd, bEnd)}

getRoomAvailabilityBP(checkTime, duration) ==
    LET n == Cardinality(overlappingBookingsBP(checkTime, duration))
    IN  [isAvailable |-> n < TOTAL_ROOMS, occupiedCount |-> n]

(* the test of checkStaffAvailability's find() on one booking *)
staffOverlap(newStart, newEnd, bStart, bEnd) ==
    newStart < bEnd /\ newEnd > bStart

staffConflicts(staffId) ==
    LET newStart == timeToMinutes(formData.time)
        newEnd == newStart + selectedService.duration
    IN  {i \in DOMAIN bookings :
            /\ bookings[i].date = formData.date
            /\ ~(isEditing /\ bookings[i].id = currentId)
            /\ isBlocking(bookings[i].status)
            /\ isAssigned(bookings[i], staffId)
            /\ LET bStart == timeToMinutes(bookings[i].time)
                   bEnd == bStart + bookings[i].duration
               IN  staffOverlap(newStart, newEnd, bStart, bEnd)}

(* find() returns the first booking of the collection that matches *)
FirstOf(S) == CHOOSE i \in S : \A j \in S : i <= j

checkStaffAvailability(staffId) ==
    IF formData.time = NoTime \/ ~selectedServiceExists
    THEN [isAvailable |-> TRUE, conflictEnd |-> NoTime]
    ELSE LET found == staffConflicts(staffId)
         IN  IF found # {}
             THEN LET conflict == bookings[FirstOf(found)]
                  IN  [isAvailable |-> FALSE,
                       conflictEnd |-> calculateEndTime(conflict.time, conflict.duration)]
             ELSE [isAvailable |-> TRUE, conflictEnd |-> NoTime]

SlotIndex(time) ==
    IF \E k \in DOMAIN ALL_TIME_SLOTS : ALL_TIME_SLOTS[k] = time
    THEN CHOOSE k \in DOMAIN ALL_TIME_SLOTS : ALL_TIME_SLOTS[k] = time
    ELSE 0

(* this page's getRoomAvailability(...).isAvailable *)
roomAvailable(checkTime, duration) ==
    IF page = "ops" THEN getRoomAvailability(checkTime, duration).isAvailable
    ELSE getRoomAvailabilityBP(checkTime, duration).isAvailable

(* mutant: a room check that counts the rows of the store at submit time
   and not the in-memory collection *)
roomStatusIsFullInStore ==
    IF ~selectedServiceExists \/ formData.time = NoTime THEN FALSE
    ELSE Cardinality({i \in DOMAIN store :
             /\ store[i].date = formData.date
             /\ isBlocking(store[i].status)
             /\ Max2(timeToMinutes(formData.time), timeToMinutes(store[i].time))
                    < Min2(timeToMinutes(formData.time) + selectedService.duration,
                           timeToMinutes(store[i].time) + store[i].duration)})
         >= TOTAL_ROOMS

(* roomStatus.isFull *)
roomStatusIsFull ==
    IF ~selectedServiceExists \/ formData.time = NoTime THEN FALSE
    ELSE ~roomAvailable(formData.time, selectedService.duration)

(* the forward scan of roomStatus from the slot after formData.time *)
RECURSIVE scanSlots(_, _)
scanSlots(i, duration) ==
    IF i > Len(ALL_TIME_SLOTS) THEN NoTime
    ELSE IF roomAvailable(ALL_TIME_SLOTS[i], duration) THEN ALL_TIME_SLOTS[i]
    ELSE scanSlots(i + 1, duration)

(* mutant: the forward scan starts at the first slot of the day *)
roomStatusNextTimeFromFirstSlot ==
    IF ~roomStatusIsFull THEN NoTime
    ELSE scanSlots(1, selectedService.duration)

(* roomStatus.nextTime *)
roomStatusNextTime ==
    IF ~roomStatusIsFull THEN NoTime
    ELSE LET startIndex == SlotIndex(formData.time)
         IN  IF startIndex # 0 THEN scanSlots(startIndex + 1, selectedService.duration)
             ELSE NoTime

roomStatus == [isFull |-> roomStatusIsFull, nextTime |-> roomStatusNextTime]

----------------------------------------------------------------------------
(* Room allocator (OperationsPage timeline) *)

bookingsForDate(date) == SelectSeq(bookings, LAMBDA b : b.date = date)

bookingsForCurrentDate == bookingsForDate(currentDate)

(* the timeline of a date: its bookings, the cancelled ones left out *)
timelineBookingsOn(date) == SelectSeq(bookingsForDate(date), LAMBDA b : b.status # CANCELLED)

timelineBookings == timelineBookingsOn(currentDate)

(* [...list].sort((a, b) => a.time.localeCompare(b.time)): a stable sort *)
RECURSIVE sortByTime(_)
sortByTime(list) ==
    IF list = <<>> THEN <<>>
    ELSE LET first == CHOOSE i \in DOMAIN list :
                          /\ \A j \in DOMAIN list : ~localeCompareLess(list[j].time, list[i].time)
                          /\ \A j \in 1..(i - 1) : localeCompareLess(list[i].time, list[j].time)
             rest == [k \in 1..(Len(list) - 1) |-> IF k < first THEN list[k] ELSE list[k + 1]]
         IN  <<list[first]>> \o sortByTime(rest)

(* mutant: a room is taken as free once its last booking has started *)
roomIsFreeEarly(start, freeTime) == start >= freeTime - 30

(* mutant: a room is free only after the end of its last booking *)
roomIsFreeStrict(start, freeTime) == start > freeTime

(* the test of the inner for loop: room i can take a booking starting at start *)
roomIsFree(start, freeTime) == start >= freeTime

(* the forEach of roomAllocations: st is [allocation, roomFreeTime] *)
RECURSIVE allocateAll(_, _)
allocateAll(sorted, st) ==
    IF sorted = <<>> THEN st.allocation
    ELSE LET booking == Head(sorted)
             start == timeToMinutes(booking.time)
             end == start + booking.duration
             free == {i \in 0..(TOTAL_ROOMS - 1) : roomIsFree(start, st.roomFreeTime[i])}
         IN  IF free = {}
             THEN allocateAll(Tail(sorted), st)
             ELSE LET assignedRoomIndex == FirstOf(free)
                  IN  allocateAll(Tail(sorted),
                        [allocation |-> [id \in DOMAIN st.allocation \cup {booking.id} |->
                                            IF id = booking.id THEN assignedRoomIndex
                                            ELSE st.allocation[id]],
                         roomFreeTime |-> [st.roomFreeTime EXCEPT ![assignedRoomIndex] = end]])

(* bookingId -> roomIndex; a booking left without a room is not in the domain *)
roomAllocationsOn(date) ==
    allocateAll(sortByTime(timelineBookingsOn(date)),
                [allocation |-> [id \in {} |-> 0],
                 roomFreeTime |-> [i \in 0..(TOTAL_ROOMS - 1) |-> 0]])

roomAllocations == roomAllocationsOn(currentDate)

----------------------------------------------------------------------------
(* Records *)

(* row of the 'bookings' table -> Booking, as fetchData maps it *)
mapRow(b) ==
    [id |-> b.id, code |-> b.code, serviceId |-> b.service_id,
     staffId |-> b.staff_id, staffIds |-> b.staff_ids,
     date |-> b.date, time |-> b.time, duration |-> b.duration,
     status |-> b.status, totalAmount |-> b.total_amount, discount |-> b.discount]

(* row returned by insert().select().single() -> Booking (handleAddBooking) *)
mapInserted(data) ==
    [id |-> data.id, code |-> data.code, serviceId |-> data.service_id,
     staffId |-> Null, staffIds |-> data.staff_ids,
     date |-> data.date, time |-> data.time, duration |-> data.duration,
     status |-> data.status, totalAmount |-> data.total_amount, discount |-> data.discount]

(* the insert payload of handleAddBooking, stored under a fresh id *)
insertedRow(newBooking, id) ==
    [id |-> id, code |-> newBooking.code, service_id |-> newBooking.serviceId,
     staff_id |-> Null, staff_ids |-> newBooking.staffIds,
     date |-> newBooking.date, time |-> newBooking.time, duration |-> newBooking.duration,
     status |-> newBooking.status, total_amount |-> newBooking.totalAmount,
     discount |-> newBooking.discount]

(* the update payload of handleUpdateBooking applied to a row: code and
   staff_id are not part of the payload, and a discount that is undefined
   (a booking of BookingPage) is left out of the request body, so the column
   keeps its value *)
updatedRow(row, updatedBooking) ==
    [row EXCEPT !.service_id = updatedBooking.serviceId,
                !.staff_ids = updatedBooking.staffIds,
                !.date = updatedBooking.date,
                !.time = updatedBooking.time,
                !.duration = updatedBooking.duration,
                !.status = updatedBooking.status,
                !.total_amount = updatedBooking.totalAmount,
                !.discount = IF updatedBooking.discount = Undef THEN @
                             ELSE updatedBooking.discount]

(* new Date().toISOString().split('T')[0] at the time the module is loaded *)
Today == <<2024, 1, 8>>

INITIAL_FORM_DATA ==
    [serviceId |-> NoServiceId, selectedStaffIds |-> <<>>,
     date |-> Today, time |-> <<10, 0>>,
     status |-> CONFIRMED, discount |-> IF page = "ops" THEN 0 ELSE Undef]

----------------------------------------------------------------------------
(* Rows found in the store when the session starts *)

SeedShapes ==
    << [service_id |-> "s10", staff_id |-> Null, staff_ids |-> <<>>,
        date |-> Today, time |-> <<10, 0>>, duration |-> 30,
        status |-> CONFIRMED, total_amount |-> 150000, discount |-> 0],
       [service_id |-> "s10", staff_id |-> Null, staff_ids |-> <<>>,
        date |-> Today, time |-> <<10, 0>>, duration |-> 30,
        status |-> COMPLETED, total_amount |-> 150000, discount |-> 0],
       [service_id |-> "s4", staff_id |-> Null, staff_ids |-> <<"e1">>,
        date |-> Today, time |-> <<10, 0>>, duration |-> 60,
        status |-> CONFIRMED, total_amount |-> 400000, discount |-> 0] >>

seedRow(shape, id) ==
    [id |-> id, code |-> id] @@ shape

(* the stores the session may start from: up to NSeed rows listed shape by
   shape, the row that has a staff member assigned at most once *)
SeedChoices ==
    {[i \in 1..(c[1] + c[2] + c[3]) |->
          IF i <= c[1] THEN 1 ELSE IF i <= c[1] + c[2] THEN 2 ELSE 3] :
        c \in {d \in (0..NSeed) \X (0..NSeed) \X (0..1) : d[1] + d[2] + d[3] <= NSeed}}

SeedStores ==
    {[i \in DOMAIN f |-> seedRow(SeedShapes[f[i]], i)] : f \in SeedChoices}

Pages == {"ops", "booking"}

----------------------------------------------------------------------------
(* Initial state: the components are mounted and fetchData has loaded the
   store into the in-memory collection *)

Init ==
    /\ store \in SeedStores
    /\ bookings = [i \in DOMAIN store |-> mapRow(store[i])]
    /\ net = <<>>
    /\ nreq = 0
    /\ page \in Pages
    /\ services = INITIAL_SERVICES
    /\ parked = NoSession
    /\ currentDate = Today
    /\ isModalOpen = FALSE
    /\ isEditing = FALSE
    /\ currentId = NoId
    /\ formData = INITIAL_FORM_DATA
    /\ dialog = <<>>
    /\ filterStartTime = <<10, 0>>
    /\ filterEndTime = <<22, 0>>
    /\ showAvailableOnly = FALSE

----------------------------------------------------------------------------
(* The booking form *)

(* the useEffect on [formData.serviceId, selectedService]: it runs when the
   selected service id differs from the one of the previous render *)
resizeStaff(prevServiceId, form) ==
    IF form.serviceId # prevServiceId /\ HasService(form.serviceId)
       /\ Len(form.selectedStaffIds) # services[form.serviceId].staffCount
    THEN LET n == services[form.serviceId].staffCount
         IN  [form EXCEPT !.selectedStaffIds =
                 [k \in 1..n |-> IF k <= Len(form.selectedStaffIds)
                                 THEN form.selectedStaffIds[k] ELSE ""]]
    ELSE form

(* the modal is opened, and a quick action taken, only while the session has
   writes left: once MaxWrites writes were issued the operator waits for the
   store *)
openAddModal ==
    /\ ~isModalOpen
    /\ nreq < MaxWrites
    /\ formData' = resizeStaff(formData.serviceId,
                       [INITIAL_FORM_DATA EXCEPT !.date = currentDate])
    /\ isEditing' = FALSE
    /\ currentId' = IF page = "ops" THEN NoId ELSE currentId
    /\ isModalOpen' = TRUE
    /\ dialog' = <<>>
    /\ UNCHANGED <<store, bookings, net, nreq, page, services, parked, currentDate, filterVars>>

openEditModal(booking) ==
    /\ ~isModalOpen
    /\ nreq < MaxWrites
    /\ LET initialSelectedStaffIds ==
               IF Len(booking.staffIds) > 0 THEN booking.staffIds
               ELSE IF booking.staffId # Null THEN <<booking.staffId>>
               ELSE <<>>
       IN  formData' = resizeStaff(formData.serviceId,
               [serviceId |-> booking.serviceId,
                selectedStaffIds |-> initialSelectedStaffIds,
                date |-> booking.date, time |-> booking.time,
                status |-> booking.status,
                discount |-> IF page = "ops"
                             THEN (IF booking.discount = Undef THEN 0 ELSE booking.discount)
                             ELSE Undef])
    /\ currentId' = booking.id
    /\ isEditing' = TRUE
    /\ isModalOpen' = TRUE
    /\ dialog' = <<>>
    /\ UNCHANGED <<store, bookings, net, nreq, page, services, parked, currentDate, filterVars>>

(* setIsModalOpen(false) leaves formData as it is; every field but serviceId
   is rewritten by the next openAddModal / openEditModal before it is read,
   so the closed form keeps serviceId only *)
closedForm(form) == [INITIAL_FORM_DATA EXCEPT !.serviceId = form.serviceId]

closeModal ==
    /\ isModalOpen
    /\ isModalOpen' = FALSE
    /\ formData' = closedForm(formData)
    /\ dialog' = <<>>
    /\ UNCHANGED <<store, bookings, net, nreq, page, services, parked, currentDate,
                   isEditing, currentId, filterVars>>

setFormField(field, value) ==
    /\ isModalOpen
    /\ formData' = [formData EXCEPT ![field] = value]
    /\ dialog' = <<>>
    /\ UNCHANGED <<store, bookings, net, nreq, page, services, parked, currentDate,
                   isModalOpen, isEditing, currentId, filterVars>>

setDate == \E d \in Dates : setFormField("date", d)

setTime == \E t \in FormTimes : setFormField("time", t)

(* a status select that lists every status *)
statusOptionsUnfiltered == Statuses

(* the status select lists every status but Pending *)
statusOptions == Statuses \ {PENDING}

setStatus == \E st \in statusOptions : setFormField("status", st)

(* the "switch to the next free slot" button under the room-full notice *)
useNextTime ==
    /\ roomStatusIsFull
    /\ roomStatusNextTime # NoTime
    /\ setFormField("time", roomStatusNextTime)

handleServiceChange(newServiceId) ==
    /\ isModalOpen
    /\ formData' = [formData EXCEPT
           !.serviceId = newServiceId,
           !.selectedStaffIds = IF HasService(newServiceId)
                                THEN [k \in 1..services[newServiceId].staffCount |-> ""]
                                ELSE <<>>]
    /\ dialog' = <<>>
    /\ UNCHANGED <<store, bookings, net, nreq, page, services, parked, currentDate,
                   isModalOpen, isEditing, currentId, filterVars>>

requiredStaffCount ==
    IF selectedServiceExists /\ selectedService.staffCount # 0
    THEN selectedService.staffCount ELSE 1

(* the option of employee e in the staff select number index is enabled *)
staffOptionEnabled(index, e) ==
    LET isSelectedHere == index <= Len(formData.selectedStaffIds)
                          /\ formData.selectedStaffIds[index] = e
        isSelectedElsewhere == e \in Range(formData.selectedStaffIds) /\ ~isSelectedHere
    IN  IF page = "ops"
        THEN checkStaffAvailability(e).isAvailable /\ ~isSelectedElsewhere
        ELSE ~isSelectedElsewhere

(* index counts from 1 here, from 0 in the source *)
handleStaffChange(index, value) ==
    /\ isModalOpen
    /\ index \in 1..requiredStaffCount
    /\ value = "" \/ staffOptionEnabled(index, value)
    /\ formData' = [formData EXCEPT !.selectedStaffIds =
           [k \in 1..Max2(index, Len(formData.selectedStaffIds)) |->
               IF k = index THEN value
               ELSE IF k <= Len(formData.selectedStaffIds)
                    THEN formData.selectedStaffIds[k] ELSE ""]]
    /\ dialog' = <<>>
    /\ UNCHANGED <<store, bookings, net, nreq, page, services, parked, currentDate,
                   isModalOpen, isEditing, currentId, filterVars>>

----------------------------------------------------------------------------
(* Submission *)

generateCode ==
    LET num(b) == IF b.code = Undef THEN 0 ELSE b.code
        nums == {num(bookings[i]) : i \in DOMAIN bookings} \cup {0}
        max == CHOOSE m \in nums : \A k \in nums : k <= m
    IN  max + 1

(* the "LOGIC FIX" of OperationsPage.handleSubmit; BookingPage always checks *)
shouldCheckRoom ==
    IF page = "ops"
    THEN ~(/\ isEditing
           /\ currentId # NoId
           /\ \E i \in DOMAIN bookings :
                 /\ bookings[i].id = currentId
                 /\ \A j \in 1..(i - 1) : bookings[j].id # currentId
                 /\ bookings[i].date = formData.date
                 /\ bookings[i].time = formData.time
                 /\ bookings[i].duration = selectedService.duration)
    ELSE TRUE

validStaffIds == SelectSeq(formData.selectedStaffIds, LAMBDA id : id # "")

(* mutant: the staff check is off by one *)
staffSufficientOffByOne(ids, service) == ~(Len(ids) + 1 < service.staffCount)

staffSufficient(ids, service) == ~(Len(ids) < service.staffCount)

(* mutant: declining the room-full warning does not stop the submission *)
submitDecisionNoReturn(confirmOverbook) ==
    IF ~HasService(formData.serviceId)
    THEN [dialogs |-> <<"noService">>, proceed |-> FALSE]
    ELSE LET warned == shouldCheckRoom /\ roomStatusIsFull
             shown == IF warned
                      THEN (IF confirmOverbook THEN <<"roomFull:confirmed">>
                            ELSE <<"roomFull:declined">>)
                      ELSE <<>>
         IN  IF ~staffSufficient(validStaffIds, selectedService)
             THEN [dialogs |-> shown \o <<"insufficientStaff">>, proceed |-> FALSE]
             ELSE [dialogs |-> shown, proceed |-> TRUE]

(* the checks of handleSubmit in their order: the dialogs shown and whether
   the handler goes on to build the booking *)
submitDecision(confirmOverbook) ==
    IF ~HasService(formData.serviceId)
    THEN [dialogs |-> <<"noService">>, proceed |-> FALSE]
    ELSE LET warned == shouldCheckRoom /\ roomStatusIsFull
         IN  IF warned /\ ~confirmOverbook
             THEN [dialogs |-> <<"roomFull:declined">>, proceed |-> FALSE]
             ELSE LET shown == IF warned THEN <<"roomFull:confirmed">> ELSE <<>>
                  IN  IF ~staffSufficient(validStaffIds, selectedService)
                      THEN [dialogs |-> shown \o <<"insufficientStaff">>, proceed |-> FALSE]
                      ELSE [dialogs |-> shown, proceed |-> TRUE]

finalBookingData ==
    LET service == selectedService
        discountAmount == IF formData.discount = Undef THEN 0 ELSE formData.discount
    IN  [serviceId |-> formData.serviceId,
         staffId |-> IF Len(validStaffIds) > 0 THEN validStaffIds[1] ELSE Null,
         staffIds |-> validStaffIds,
         date |-> formData.date, time |-> formData.time,
         duration |-> service.duration,
         status |-> formData.status,
         totalAmount |-> IF page = "ops" THEN Max2(0, service.price - discountAmount)
                         ELSE service.price,
         discount |-> IF page = "ops" THEN discountAmount ELSE formData.discount]

(* one write handed to handleAddBooking / handleUpdateBooking *)
request(op, booking, origin) ==
    [op |-> op, booking |-> booking, origin |-> origin, phase |-> "sent", data |-> <<>>]

handleSubmit(confirmOverbook) ==
    /\ isModalOpen
    /\ LET decision == submitDecision(confirmOverbook)
       IN  /\ dialog' = decision.dialogs
           /\ IF decision.proceed
              THEN /\ nreq < MaxWrites
                   /\ nreq' = nreq + 1
                   /\ net' = Append(net,
                         IF isEditing /\ currentId # NoId
                         THEN request("update",
                                  [id |-> currentId, code |-> Undef] @@ finalBookingData, "form")
                         ELSE request("insert",
                                  [id |-> NoId, code |-> generateCode] @@ finalBookingData, "form"))
                   /\ isModalOpen' = FALSE
                   /\ formData' = closedForm(formData)
              ELSE UNCHANGED <<net, nreq, isModalOpen, formData>>
    /\ UNCHANGED <<store, bookings, page, services, parked, currentDate, isEditing, currentId,
                   filterVars>>

(* the quick-action buttons offered for a booking of the given status *)
quickActions(status) ==
    (IF status = PENDING THEN {CONFIRMED} ELSE {})
    \cup (IF status = CONFIRMED THEN {IN_PROGRESS} ELSE {})
    \cup (IF status = IN_PROGRESS THEN {COMPLETED} ELSE {})
    \cup (IF status = PENDING \/ status = CONFIRMED THEN {CANCELLED} ELSE {})

updateStatus(id, newStatus) ==
    /\ ~isModalOpen
    /\ nreq < MaxWrites
    /\ \E i \in DOMAIN bookings :
          /\ bookings[i].id = id
          /\ \A j \in 1..(i - 1) : bookings[j].id # id
          /\ newStatus \in quickActions(bookings[i].status)
          /\ net' = Append(net, request("update",
                               [bookings[i] EXCEPT !.status = newStatus], "quick"))
    /\ nreq' = nreq + 1
    /\ dialog' = <<>>
    /\ UNCHANGED <<store, bookings, page, services, parked, currentDate, formVars, filterVars>>

----------------------------------------------------------------------------
(* The external store and the continuations of the two write handlers *)

(* supabase.from('bookings').insert(payload) / .update(payload).eq('id', id) *)
storeApply(i) ==
    /\ net[i].phase = "sent"
    /\ IF net[i].op = "insert"
       THEN LET row == insertedRow(net[i].booking, Len(store) + 1)
            IN  /\ store' = Append(store, row)
                /\ net' = [net EXCEPT ![i].phase = "ok", ![i].data = <<row>>]
       ELSE /\ store' = [store EXCEPT ![net[i].booking.id] = updatedRow(@, net[i].booking)]
            /\ net' = [net EXCEPT ![i].phase = "ok"]
    /\ UNCHANGED <<bookings, nreq, page, services, parked, currentDate, formVars, dialog, filterVars>>

storeReject(i) ==
    /\ net[i].phase = "sent"
    /\ net' = [net EXCEPT ![i].phase = "err"]
    /\ UNCHANGED <<store, bookings, nreq, page, services, parked, currentDate, formVars, dialog, filterVars>>

RemoveAt(seq, i) == [k \in 1..(Len(seq) - 1) |-> IF k < i THEN seq[k] ELSE seq[k + 1]]

(* mutant: the write is reflected whether or not it came back with an error *)
reflectsAnyway(phase) == phase = "ok" \/ phase = "err"

(* the write handlers reflect a write only when it came back without error *)
reflects(phase) == phase = "ok"

(* mutant: the new booking is put in front *)
prependBooking(prev, mapped) == <<mapped>> \o prev

(* setBookings(prev => [...prev, mapped]) *)
appendBooking(prev, mapped) == Append(prev, mapped)

(* handleAddBooking after the await *)
addBookingReturns(i) ==
    /\ net[i].op = "insert"
    /\ net[i].phase # "sent"
    /\ IF reflects(net[i].phase)
       THEN /\ bookings' = (IF net[i].data # <<>>
                            THEN appendBooking(bookings, mapInserted(net[i].data[1]))
                            ELSE bookings)
            /\ dialog' = <<>>
       ELSE /\ bookings' = bookings
            /\ dialog' = <<"createError">>
    /\ net' = RemoveAt(net, i)
    /\ UNCHANGED <<store, nreq, page, services, parked, currentDate, formVars, filterVars>>

(* handleUpdateBooking after the await *)
updateBookingReturns(i) ==
    /\ net[i].op = "update"
    /\ net[i].phase # "sent"
    /\ IF reflects(net[i].phase)
       THEN /\ bookings' = [k \in DOMAIN bookings |->
                               IF bookings[k].id = net[i].booking.id
                               THEN net[i].booking ELSE bookings[k]]
            /\ dialog' = <<>>
       ELSE /\ bookings' = bookings
            /\ dialog' = <<"updateError">>
    /\ net' = RemoveAt(net, i)
    /\ UNCHANGED <<store, nreq, page, services, parked, currentDate, formVars, filterVars>>

----------------------------------------------------------------------------
(* Operations of the session *)

OpenAdd == openAddModal

OpenEdit == \E i \in DOMAIN bookings : openEditModal(bookings[i])

CloseModal == closeModal

SetDate == setDate

SetTime == setTime

SetStatus == setStatus

UseNextTime == useNextTime

ServiceChange == \E sid \in ServiceIds \cup {NoServiceId} : handleServiceChange(sid)

StaffChange == \E index \in 1..2, value \in Employees \cup {""} : handleStaffChange(index, value)

Submit == \E confirmOverbook \in BOOLEAN : handleSubmit(confirmOverbook)

QuickAction == \E i \in DOMAIN bookings, st \in Statuses : updateStatus(bookings[i].id, st)

StoreApply == \E i \in DOMAIN net : storeApply(i)

StoreReject == \E i \in DOMAIN net : storeReject(i)

AddBookingReturns == \E i \in DOMAIN net : addBookingReturns(i)

UpdateBookingReturns == \E i \in DOMAIN net : updateBookingReturns(i)

Next ==
    \/ OpenAdd
    \/ OpenEdit
    \/ CloseModal
    \/ SetDate
    \/ SetTime
    \/ SetStatus
    \/ UseNextTime
    \/ ServiceChange
    \/ StaffChange
    \/ Submit
    \/ QuickAction
    \/ StoreApply
    \/ StoreReject
    \/ AddBookingReturns
    \/ UpdateBookingReturns

Spec == Init /\ [][Next]_vars

----------------------------------------------------------------------------
(* Timeline toolbar (OperationsPage): the available-only filters.  The staff
   filter stays 'All' and the search box empty. *)

(* the test of the two available-only filters on one booking *)
filterOverlap(bStart, bEnd, startFilter, endFilter) ==
    bStart < endFilter /\ bEnd > startFilter

(* the test of the toolbar suggestion's checkAvailability on one booking *)
suggestionOverlap(start, end, bStart, bEnd) ==
    Max2(start, bStart) < Min2(end, bEnd)

activeEmployees == Employees

filteredTimelineEmployees ==
    IF ~showAvailableOnly THEN activeEmployees
    ELSE LET startFilter == timeToMinutes(filterStartTime)
             endFilter == timeToMinutes(filterEndTime)
             list == bookingsForCurrentDate
             hasOverlap(emp) ==
                 \E i \in DOMAIN list :
                     /\ isBlocking(list[i].status)
                     /\ isAssigned(list[i], emp)
                     /\ filterOverlap(timeToMinutes(list[i].time),
                                      timeToMinutes(list[i].time) + list[i].duration,
                                      startFilter, endFilter)
         IN  {emp \in activeEmployees : ~hasOverlap(emp)}

(* the indices in timelineBookings of the bookings allocated to a room *)
bookingsInRoom(roomIndex) ==
    LET alloc == roomAllocations
    IN  {i \in DOMAIN timelineBookings :
            /\ timelineBookings[i].id \in DOMAIN alloc
            /\ alloc[timelineBookings[i].id] = roomIndex}

filteredTimelineRooms ==
    IF ~showAvailableOnly THEN 0..(TOTAL_ROOMS - 1)
    ELSE LET startFilter == timeToMinutes(filterStartTime)
             endFilter == timeToMinutes(filterEndTime)
             list == timelineBookings
             hasOverlap(roomIndex) ==
                 \E i \in bookingsInRoom(roomIndex) :
                     /\ isBlocking(list[i].status)
                     /\ filterOverlap(timeToMinutes(list[i].time),
                                      timeToMinutes(list[i].time) + list[i].duration,
                                      startFilter, endFilter)
         IN  {roomIndex \in 0..(TOTAL_ROOMS - 1) : ~hasOverlap(roomIndex)}

(* checkAvailability of nextAvailableSuggestion: some room is free in [start, end) *)
checkAvailability(start, end) ==
    LET list == timelineBookings
    IN  \E r \in 0..(TOTAL_ROOMS - 1) :
            ~\E i \in bookingsInRoom(r) :
                /\ isBlocking(list[i].status)
                /\ suggestionOverlap(start, end, timeToMinutes(list[i].time),
                                     timeToMinutes(list[i].time) + list[i].duration)

RECURSIVE scanSuggestion(_, _)
scanSuggestion(i, duration) ==
    IF i > Len(ALL_TIME_SLOTS) THEN NoTime
    ELSE LET sTime == timeToMinutes(ALL_TIME_SLOTS[i])
         IN  IF checkAvailability(sTime, sTime + duration) THEN ALL_TIME_SLOTS[i]
             ELSE scanSuggestion(i + 1, duration)

nextAvailableSuggestion ==
    IF ~showAvailableOnly \/ filteredTimelineRooms # {} THEN NoTime
    ELSE LET duration == timeToMinutes(filterEndTime) - timeToMinutes(filterStartTime)
             startIndex == SlotIndex(filterStartTime)
         IN  IF startIndex = 0 THEN NoTime
             ELSE scanSuggestion(startIndex + 1, duration)

(* onChange of the filter's start select: the end follows two hours later,
   22:00 at the latest *)
setFilterStartTime(newStart) ==
    LET startMins == timeToMinutes(newStart)
        endMins == startMins + 120
        maxMins == timeToMinutes(<<22, 0>>)
        newEnd == IF endMins < maxMins THEN <<endMins \div 60, endMins % 60>>
                  ELSE <<22, 0>>
    IN  /\ filterStartTime' = newStart
        /\ filterEndTime' = newEnd
        /\ UNCHANGED <<store, bookings, net, nreq, page, services, parked, currentDate, formVars, dialog,
                       showAvailableOnly>>

(* onChange of the filter's end select *)
setFilterEndTime(value) ==
    /\ filterEndTime' = IF timeToMinutes(value) > timeToMinutes(filterStartTime)
                        THEN value ELSE filterEndTime
    /\ UNCHANGED <<store, bookings, net, nreq, page, services, parked, currentDate, formVars, dialog,
                   filterStartTime, showAvailableOnly>>

toggleAvailableOnly ==
    /\ showAvailableOnly' = ~showAvailableOnly
    /\ UNCHANGED <<store, bookings, net, nreq, page, services, parked, currentDate, formVars, dialog,
                   filterStartTime, filterEndTime>>

resetFilters ==
    /\ showAvailableOnly' = FALSE
    /\ filterStartTime' = <<10, 0>>
    /\ filterEndTime' = <<22, 0>>
    /\ UNCHANGED <<store, bookings, net, nreq, page, services, parked, currentDate, formVars, dialog>>

setCurrentDate(date) ==
    /\ currentDate' = date
    /\ UNCHANGED <<store, bookings, net, nreq, page, services, parked, formVars, dialog, filterVars>>

(* the filter times the toolbar is driven with *)
FilterTimes == {<<10, 0>>, <<10, 30>>, <<20, 30>>, <<21, 30>>, <<22, 0>>}

(* a booking made through the form for the last hour of the day *)
LateShape ==
    [service_id |-> "s4", staff_id |-> Null, staff_ids |-> <<"e2">>,
     date |-> Today, time |-> <<21, 30>>, duration |-> 60,
     status |-> CONFIRMED, total_amount |-> 400000, discount |-> 0]

TimelineShapes == <<SeedShapes[1], SeedShapes[3], LateShape>>

TimelineStores ==
    {[i \in 1..(c[1] + c[2] + c[3]) |->
          seedRow(TimelineShapes[IF i <= c[1] THEN 1
                                 ELSE IF i <= c[1] + c[2] THEN 2 ELSE 3], i)] :
        c \in {d \in (0..NSeed) \X (0..1) \X (0..1) : d[1] + d[2] + d[3] <= NSeed}}

InitTimeline ==
    /\ store \in TimelineStores
    /\ bookings = [i \in DOMAIN store |-> mapRow(store[i])]
    /\ net = <<>>
    /\ nreq = 0
    /\ page = "ops"
    /\ services = INITIAL_SERVICES
    /\ parked = NoSession
    /\ currentDate = Today
    /\ isModalOpen = FALSE
    /\ isEditing = FALSE
    /\ currentId = NoId
    /\ formData = INITIAL_FORM_DATA
    /\ dialog = <<>>
    /\ filterStartTime = <<10, 0>>
    /\ filterEndTime = <<22, 0>>
    /\ showAvailableOnly = FALSE

SetFilterStart == \E t \in FilterTimes : setFilterStartTime(t)

SetFilterEnd == \E t \in FilterTimes : setFilterEndTime(t)

ToggleAvailableOnly == toggleAvailableOnly

ResetFilters == resetFilters

SetCurrentDate == \E d \in Dates : setCurrentDate(d)

NextTimeline ==
    \/ SetFilterStart
    \/ SetFilterEnd
    \/ ToggleAvailableOnly
    \/ ResetFilters
    \/ SetCurrentDate

SpecTimeline == InitTimeline /\ [][NextTimeline]_vars

----------------------------------------------------------------------------
(* Write path *)

(* C1: the in-memory booking collection changes only in the step in which a
   create or an update returns from the store without error; it is unchanged
   while a write is in flight and when a write returns with an error. *)
C1_WriteThenReflect ==
    [][bookings' # bookings =>
          \E i \in DOMAIN net : net[i].phase = "ok" /\ net' = RemoveAt(net, i)]_vars

(* a create the store has accepted and the collection does not show yet *)
C1_Witness ==
    \E i \in DOMAIN net :
        /\ net[i].op = "insert"
        /\ net[i].phase = "ok"
        /\ Len(store) = Len(bookings) + 1

RejectionDialogs ==
    {<<"noService">>, <<"roomFull:declined">>, <<"insufficientStaff">>,
     <<"roomFull:confirmed", "insufficientStaff">>}

(* C2: a submission that is rejected (no service, not enough staff, room-full
   warning declined) sends nothing to the store and leaves the in-memory
   collection unchanged. *)
C2_RejectedSubmitWritesNothing ==
    [][(Submit /\ dialog' \in RejectionDialogs) =>
          (net' = net /\ store' = store /\ bookings' = bookings /\ nreq' = nreq)]_vars

(* the operator has just declined the room-full warning *)
C2_Witness ==
    /\ dialog = <<"roomFull:declined">>
    /\ isModalOpen
    /\ net = <<>>

nonEmptyCount(ids) == Cardinality({k \in DOMAIN ids : ids[k] # ""})

(* C3: every booking the form hands to the store, on create and on edit,
   carries at least as many non-empty staff ids as its service requires. *)
C3_SubmittedStaffSufficient ==
    \A i \in DOMAIN net :
        net[i].origin = "form" =>
            nonEmptyCount(net[i].booking.staffIds)
                >= services[net[i].booking.serviceId].staffCount

(* an edit of a booking whose service requires staff is on its way *)
C3_Witness ==
    \E i \in DOMAIN net :
        /\ net[i].origin = "form"
        /\ net[i].op = "update"
        /\ services[net[i].booking.serviceId].staffCount = 1
        /\ nonEmptyCount(net[i].booking.staffIds) = 1

----------------------------------------------------------------------------
(* Availability *)

(* some instant lies in both [aStart, aEnd) and [bStart, bEnd) *)
shareInstant(aStart, aEnd, bStart, bEnd) ==
    \E t \in aStart..(aEnd - 1) : bStart <= t /\ t < bEnd

minutesToTime(m) == <<m \div 60, m % 60>>

bookingStart(b) == timeToMinutes(b.time)

bookingEnd(b) == timeToMinutes(b.time) + b.duration

BlockingStatuses == {PENDING, CONFIRMED, IN_PROGRESS}

notEdited(b) == ~(isEditing /\ b.id = currentId)

(* C4: no staff member is assigned to two bookings of blocking status on the
   same date whose [start, start+duration) intervals overlap, after any
   sequence of creations, form edits and status changes. *)
C4_NoStaffDoubleBooked ==
    \A i, j \in DOMAIN bookings :
        \A e \in Employees :
            (/\ i < j
             /\ bookings[i].date = bookings[j].date
             /\ bookings[i].status \in BlockingStatuses
             /\ bookings[j].status \in BlockingStatuses
             /\ isAssigned(bookings[i], e)
             /\ isAssigned(bookings[j], e))
            => ~shareInstant(bookingStart(bookings[i]), bookingEnd(bookings[i]),
                             bookingStart(bookings[j]), bookingEnd(bookings[j]))

CheckTimes == {<<9, 30>>, <<10, 0>>, <<10, 20>>, <<10, 30>>, <<11, 0>>}

CheckDurations == {30, 60}

(* the bookings the room check is specified to count *)
occupying(checkTime, duration) ==
    {i \in DOMAIN bookings :
        /\ bookings[i].date = formData.date
        /\ notEdited(bookings[i])
        /\ bookings[i].status \in BlockingStatuses
        /\ shareInstant(timeToMinutes(checkTime), timeToMinutes(checkTime) + duration,
                        bookingStart(bookings[i]), bookingEnd(bookings[i]))}

(* C5: the room check's occupiedCount is the number of bookings on the date,
   other than the edited one, that are blocking and overlap the window,
   staffed or not; and it reports available exactly when that count is below
   TOTAL_ROOMS. *)
C5_RoomAvailabilityCounts ==
    \A checkTime \in CheckTimes \cup {formData.time} :
        \A duration \in CheckDurations :
            LET r == getRoomAvailability(checkTime, duration)
            IN  /\ r.occupiedCount = Cardinality(occupying(checkTime, duration))
                /\ r.isAvailable <=> (r.occupiedCount < TOTAL_ROOMS)

(* an edit of a Completed booking while five unstaffed blocking bookings fill
   the rooms of its window *)
C5_Witness ==
    /\ isModalOpen /\ isEditing /\ selectedServiceExists
    /\ \E i \in DOMAIN bookings :
          bookings[i].id = currentId /\ bookings[i].status = COMPLETED
    /\ \E i \in DOMAIN bookings :
          bookings[i].staffIds = <<>> /\ bookings[i].status = CONFIRMED
    /\ getRoomAvailability(formData.time, selectedService.duration)
          = [isAvailable |-> FALSE, occupiedCount |-> TOTAL_ROOMS]

(* the bookings that make a staff member busy in the form's window *)
conflicting(staffId) ==
    {i \in DOMAIN bookings :
        /\ bookings[i].date = formData.date
        /\ notEdited(bookings[i])
        /\ bookings[i].status \in BlockingStatuses
        /\ (bookings[i].staffId = staffId
            \/ \E k \in DOMAIN bookings[i].staffIds : bookings[i].staffIds[k] = staffId)
        /\ shareInstant(timeToMinutes(formData.time),
                        timeToMinutes(formData.time) + selectedService.duration,
                        bookingStart(bookings[i]), bookingEnd(bookings[i]))}

(* C6: with a service and a time in the form, the staff check reports a staff
   member unavailable exactly when some blocking booking of the date, other
   than the edited one, is assigned to them and overlaps the window; the end
   time it reports is the end (start + duration) of such a booking. *)
C6_StaffAvailabilityExact ==
    selectedServiceExists =>
        \A e \in Employees :
            LET r == checkStaffAvailability(e)
            IN  /\ r.isAvailable <=> (conflicting(e) = {})
                /\ ~r.isAvailable =>
                      \E i \in conflicting(e) :
                          r.conflictEnd = minutesToTime(bookingEnd(bookings[i]))

(* a Confirmed 10:00-11:00 booking of e1 and a 30 minute request at 10:30 *)
C6_Witness ==
    /\ isModalOpen /\ formData.serviceId = "s10" /\ formData.time = <<10, 30>>
    /\ \E i \in DOMAIN bookings :
          /\ bookings[i].status = CONFIRMED /\ bookings[i].time = <<10, 0>>
          /\ bookings[i].duration = 60 /\ bookings[i].date = formData.date
          /\ bookings[i].staffIds = <<"e1">>
    /\ checkStaffAvailability("e1") = [isAvailable |-> FALSE, conflictEnd |-> <<11, 0>>]
    /\ checkStaffAvailability("e2").isAvailable

(* the form shows the persisted date, time and duration of the edited booking *)
scheduleUnchanged ==
    /\ isEditing /\ selectedServiceExists
    /\ \E i \in DOMAIN bookings :
          /\ bookings[i].id = currentId
          /\ bookings[i].date = formData.date
          /\ bookings[i].time = formData.time
          /\ bookings[i].duration = selectedService.duration

roomFullShown(d) ==
    \E k \in DOMAIN d : d[k] \in {"roomFull:declined", "roomFull:confirmed"}

(* C7: submitting an edit whose date, time and duration equal the persisted
   values never raises the room-full warning. *)
C7_UnchangedEditNeverWarns ==
    [][(Submit /\ scheduleUnchanged) => ~roomFullShown(dialog')]_vars

----------------------------------------------------------------------------
(* Room allocation *)

(* C8: on every date the allocation never gives two bookings whose intervals
   overlap the same room index. *)
C8_RoomsHoldOneBookingAtATime ==
    \A d \in Dates :
        LET alloc == roomAllocationsOn(d)
            tb == timelineBookingsOn(d)
        IN  \A i, j \in DOMAIN tb :
                (/\ i # j
                 /\ tb[i].id \in DOMAIN alloc
                 /\ tb[j].id \in DOMAIN alloc
                 /\ alloc[tb[i].id] = alloc[tb[j].id])
                => ~shareInstant(bookingStart(tb[i]), bookingEnd(tb[i]),
                                 bookingStart(tb[j]), bookingEnd(tb[j]))

(* a room is used again after its first booking has ended, while another room
   is still taken *)
C8_Witness ==
    LET alloc == roomAllocations
        tb == timelineBookings
    IN  \E i, j, k \in DOMAIN tb :
            /\ i # j
            /\ {tb[i].id, tb[j].id, tb[k].id} \subseteq DOMAIN alloc
            /\ alloc[tb[i].id] = alloc[tb[j].id]
            /\ alloc[tb[k].id] # alloc[tb[i].id]
            /\ bookingEnd(tb[i]) = bookingStart(tb[j])
            /\ bookingEnd(tb[k]) > bookingStart(tb[j])

(* C10: isBlocking is true for exactly Pending, Confirmed and InProgress, and
   false for Completed and Cancelled. *)
C10_IsBlockingExact ==
    /\ \A s \in BlockingStatuses : isBlocking(s)
    /\ ~isBlocking(COMPLETED) /\ ~isBlocking(CANCELLED)
    /\ \A i \in DOMAIN bookings :
          isBlocking(bookings[i].status) <=> bookings[i].status \in BlockingStatuses

(* the collection holds a booking of each kind: blocking, Completed, Cancelled *)
C10_Witness ==
    /\ \E i \in DOMAIN bookings : isBlocking(bookings[i].status)
    /\ \E i \in DOMAIN bookings : bookings[i].status = COMPLETED /\ ~isBlocking(COMPLETED)
    /\ \E i \in DOMAIN bookings : bookings[i].status = CANCELLED /\ ~isBlocking(CANCELLED)

----------------------------------------------------------------------------
(* Interval tests *)

(* the half-open overlap of [aStart, aEnd) and [bStart, bEnd) *)
overlaps(aStart, aEnd, bStart, bEnd) == Max2(aStart, bStart) < Min2(aEnd, bEnd)

(* the interval tests of the scheduling code, each as a set of windows and
   the test applied against a booking *)
testsAgree(wStart, wEnd, bStart, bEnd) ==
    /\ staffOverlap(wStart, wEnd, bStart, bEnd) <=> overlaps(wStart, wEnd, bStart, bEnd)
    /\ filterOverlap(bStart, bEnd, wStart, wEnd) <=> overlaps(bStart, bEnd, wStart, wEnd)
    /\ suggestionOverlap(wStart, wEnd, bStart, bEnd) <=> overlaps(wStart, wEnd, bStart, bEnd)

(* C9: every interval test of the scheduling code (room availability, staff
   availability, the available-only filters, the toolbar suggestion) is the
   half-open overlap max(aStart, bStart) < min(aEnd, bEnd): on the window the
   toolbar holds and on the windows of the form, each test answers as the
   half-open overlap does for every booking of the collection. *)
C9_EveryTestIsHalfOpen ==
    \A i \in DOMAIN bookings :
        LET bStart == bookingStart(bookings[i])
            bEnd == bookingEnd(bookings[i])
        IN  /\ testsAgree(timeToMinutes(filterStartTime), timeToMinutes(filterEndTime),
                          bStart, bEnd)
            /\ \A t \in CheckTimes, d \in CheckDurations :
                  testsAgree(timeToMinutes(t), timeToMinutes(t) + d, bStart, bEnd)

----------------------------------------------------------------------------
(* The two pages' room checks *)

(* C11: for every window, the booking page's room check returns the same
   availability and occupied count as the operations page's check, and
   neither counts a Completed or Cancelled booking as occupying a room. *)
C11_PagesAgreeOnRooms ==
    \A checkTime \in CheckTimes \cup {formData.time} :
        \A duration \in CheckDurations :
            /\ getRoomAvailabilityBP(checkTime, duration)
                  = getRoomAvailability(checkTime, duration)
            /\ \A i \in overlappingBookingsBP(checkTime, duration)
                        \cup overlappingBookings(checkTime, duration) :
                  bookings[i].status \notin {COMPLETED, CANCELLED}

----------------------------------------------------------------------------
(* The form's next-slot search, on days whose rooms are taken by one-hour
   bookings in the morning and in the last hour *)

SlotStores ==
    {[i \in 1..(c[1] + c[2]) |->
          seedRow(IF i <= c[1] THEN SeedShapes[3] ELSE LateShape, i)] :
        c \in (0..NSeed) \X (0..NSeed)}

InitSlots ==
    /\ store \in SlotStores
    /\ bookings = [i \in DOMAIN store |-> mapRow(store[i])]
    /\ net = <<>>
    /\ nreq = 0
    /\ page \in Pages
    /\ services = INITIAL_SERVICES
    /\ parked = NoSession
    /\ currentDate = Today
    /\ isModalOpen = FALSE
    /\ isEditing = FALSE
    /\ currentId = NoId
    /\ formData = INITIAL_FORM_DATA
    /\ dialog = <<>>
    /\ filterStartTime = <<10, 0>>
    /\ filterEndTime = <<22, 0>>
    /\ showAvailableOnly = FALSE

SlotFormTimes == {<<10, 0>>, <<10, 30>>, <<21, 30>>}

SetSlotTime == \E t \in SlotFormTimes : setFormField("time", t)

NextSlots ==
    \/ OpenAdd
    \/ OpenEdit
    \/ CloseModal
    \/ SetDate
    \/ SetSlotTime
    \/ ServiceChange
    \/ UseNextTime

SpecSlots == InitSlots /\ [][NextSlots]_vars

(* the later slots at which this page's room check admits the service *)
laterFreeSlots ==
    {k \in DOMAIN ALL_TIME_SLOTS :
        /\ k > SlotIndex(formData.time)
        /\ roomAvailable(ALL_TIME_SLOTS[k], selectedService.duration)}

(* C12: when the candidate slot is room-unavailable, the form's next-slot
   search returns the earliest later slot of the 10:00..22:00 sequence at
   which the room check is available for the service duration, every slot in
   between being unavailable, and none when no later slot qualifies. *)
C12_NextSlotIsEarliestFree ==
    (roomStatusIsFull /\ SlotIndex(formData.time) # 0) =>
        IF laterFreeSlots = {} THEN roomStatusNextTime = NoTime
        ELSE \E k \in laterFreeSlots :
                /\ roomStatusNextTime = ALL_TIME_SLOTS[k]
                /\ \A j \in (SlotIndex(formData.time) + 1)..(k - 1) :
                      ~roomAvailable(ALL_TIME_SLOTS[j], selectedService.duration)

(* five blocking one-hour bookings at 10:00 and a one-hour candidate at 10:00:
   the search answers 11:00 *)
C12_Witness ==
    /\ isModalOpen /\ ~isEditing
    /\ formData.time = <<10, 0>> /\ formData.serviceId = "s4"
    /\ Cardinality({i \in DOMAIN bookings :
           /\ bookings[i].time = <<10, 0>> /\ bookings[i].duration = 60
           /\ bookings[i].date = formData.date
           /\ isBlocking(bookings[i].status)}) = TOTAL_ROOMS
    /\ roomStatus = [isFull |-> TRUE, nextTime |-> <<11, 0>>]

----------------------------------------------------------------------------
(* Amounts: the discount field of the operations form, and bookings that
   carry a discount when the session starts *)

(* the options of the voucher select *)
DiscountValues == {0, 100000, 200000}

(* onChange of the discount input (OperationsPage only) *)
setDiscount ==
    /\ page = "ops"
    /\ \E d \in DiscountValues : setFormField("discount", d)

SetDiscount == setDiscount

(* a booking made on the operations page with a discount of 200000 *)
DiscountedShape ==
    [service_id |-> "s4", staff_id |-> Null, staff_ids |-> <<"e2">>,
     date |-> <<2024, 1, 7>>, time |-> <<10, 30>>, duration |-> 60,
     status |-> CONFIRMED, total_amount |-> 200000, discount |-> 200000]

AmountStores ==
    {[i \in 1..(c[1] + c[2]) |->
          seedRow(IF i <= c[1] THEN SeedShapes[3] ELSE DiscountedShape, i)] :
        c \in (0..1) \X (0..1)}

InitAmounts ==
    /\ store \in AmountStores
    /\ bookings = [i \in DOMAIN store |-> mapRow(store[i])]
    /\ net = <<>>
    /\ nreq = 0
    /\ page \in Pages
    /\ services = INITIAL_SERVICES
    /\ parked = NoSession
    /\ currentDate = Today
    /\ isModalOpen = FALSE
    /\ isEditing = FALSE
    /\ currentId = NoId
    /\ formData = INITIAL_FORM_DATA
    /\ dialog = <<>>
    /\ filterStartTime = <<10, 0>>
    /\ filterEndTime = <<22, 0>>
    /\ showAvailableOnly = FALSE

NextAmounts ==
    \/ OpenAdd
    \/ OpenEdit
    \/ CloseModal
    \/ ServiceChange
    \/ StaffChange
    \/ SetStatus
    \/ SetDiscount
    \/ Submit
    \/ StoreApply
    \/ StoreReject
    \/ AddBookingReturns
    \/ UpdateBookingReturns

SpecAmounts == InitAmounts /\ [][NextAmounts]_vars

discountOf(d) == IF d = Undef THEN 0 ELSE d

(* C13: every booking accepted by submit, from either form, has
   totalAmount = max(0, service.price - discount), and never a negative
   totalAmount: in the store and in the in-memory collection. *)
C13_TotalIsPriceLessDiscount ==
    /\ \A i \in DOMAIN store :
          /\ store[i].total_amount
                = Max2(0, services[store[i].service_id].price - discountOf(store[i].discount))
          /\ store[i].total_amount >= 0
    /\ \A i \in DOMAIN bookings :
          /\ bookings[i].totalAmount
                = Max2(0, services[bookings[i].serviceId].price
                            - discountOf(bookings[i].discount))
          /\ bookings[i].totalAmount >= 0

----------------------------------------------------------------------------
(* Frame of an update *)

(* C14: an update, by form edit or by status quick action, preserves the
   booking's code: a booking of the in-memory collection carries the same
   code after every step as it did before. *)
C14_UpdateKeepsCode ==
    [][\A i \in DOMAIN bookings : \A j \in DOMAIN bookings' :
          bookings'[j].id = bookings[i].id => bookings'[j].code = bookings[i].code]_vars

(* a step that reflects an update: the collection keeps its length and the
   id at every position, and one element at most is replaced *)
replacesInPlace ==
    /\ Len(bookings') = Len(bookings)
    /\ \A k \in DOMAIN bookings : bookings'[k].id = bookings[k].id
    /\ Cardinality({k \in DOMAIN bookings : bookings'[k] # bookings[k]}) <= 1

(* C15 as stated: after a successful create the new booking is the first
   element and the previous bookings follow in their order; after a
   successful update the element with the same id is replaced and length and
   order are unchanged. *)
C15_CreatePrepends ==
    [][bookings' # bookings =>
          \/ (Len(bookings') = Len(bookings) + 1 /\ Tail(bookings') = bookings)
          \/ replacesInPlace]_vars

(* C15, amended: after a successful create the new booking is the last
   element of the in-memory collection and the previous bookings precede it
   in their order; after a successful update the element with the same id is
   replaced and length and order are unchanged. *)
C15_CreateAppends ==
    [][bookings' # bookings =>
          \/ /\ Len(bookings') = Len(bookings) + 1
             /\ SubSeq(bookings', 1, Len(bookings)) = bookings
             /\ \A k \in DOMAIN bookings : bookings[k].id # bookings'[Len(bookings')].id
          \/ replacesInPlace]_vars

(* a create has been reflected behind NSeed bookings that were there before *)
C15_Witness ==
    /\ net = <<>> /\ nreq = 1
    /\ Len(bookings) = NSeed + 1
    /\ \A k \in DOMAIN bookings : bookings[k].id = k
    /\ bookings[Len(bookings)] = mapRow(store[Len(store)])

----------------------------------------------------------------------------
(* The service catalogue: ServicePage edits a service while the booking page
   is not mounted *)

ServiceDurations == {30, 60, 90}

ServicePrices == {150000, 400000, 500000}

(* ServicePage.handleSubmit on an edited service, then handleUpdateService:
   the form opens with staffCount || 1, and the catalogue is replaced only
   when the store reports no error.  The booking page is mounted again
   afterwards, so its own state starts over. *)
handleUpdateService(id, duration, price, ok) ==
    /\ ~isModalOpen
    /\ LET staffCount == IF services[id].staffCount = 0 THEN 1 ELSE services[id].staffCount
           updatedService == [duration |-> duration, price |-> price,
                              staffCount |-> staffCount]
       IN  services' = IF ok THEN [services EXCEPT ![id] = updatedService] ELSE services
    /\ formData' = INITIAL_FORM_DATA
    /\ isEditing' = FALSE
    /\ currentId' = NoId
    /\ currentDate' = Today
    /\ dialog' = <<>>
    /\ filterStartTime' = <<10, 0>>
    /\ filterEndTime' = <<22, 0>>
    /\ showAvailableOnly' = FALSE
    /\ UNCHANGED <<store, bookings, net, nreq, page, parked, isModalOpen>>

UpdateService ==
    \E id \in ServiceIds, duration \in ServiceDurations, price \in ServicePrices,
       ok \in BOOLEAN :
        handleUpdateService(id, duration, price, ok)

CatalogueStores ==
    {[i \in 1..(c[1] + c[2]) |->
          seedRow(SeedShapes[IF i <= c[1] THEN 1 ELSE 3], i)] :
        c \in (0..1) \X (0..1)}

InitCatalogue ==
    /\ store \in CatalogueStores
    /\ bookings = [i \in DOMAIN store |-> mapRow(store[i])]
    /\ net = <<>>
    /\ nreq = 0
    /\ page \in Pages
    /\ services = INITIAL_SERVICES
    /\ parked = NoSession
    /\ currentDate = Today
    /\ isModalOpen = FALSE
    /\ isEditing = FALSE
    /\ currentId = NoId
    /\ formData = INITIAL_FORM_DATA
    /\ dialog = <<>>
    /\ filterStartTime = <<10, 0>>
    /\ filterEndTime = <<22, 0>>
    /\ showAvailableOnly = FALSE

NextCatalogue ==
    \/ UpdateService
    \/ OpenEdit
    \/ CloseModal
    \/ SetStatus
    \/ Submit
    \/ QuickAction
    \/ StoreApply
    \/ StoreReject
    \/ UpdateBookingReturns

SpecCatalogue == InitCatalogue /\ [][NextCatalogue]_vars

(* C16: across service updates, status quick actions and form edits, a
   booking's duration and its price snapshot change only in an edit that
   changes the booking's service selection. *)
C16_SnapshotChangesOnlyWithService ==
    [][\A i \in DOMAIN bookings : \A j \in DOMAIN bookings' :
          (/\ bookings'[j].id = bookings[i].id
           /\ \/ bookings'[j].duration # bookings[i].duration
              \/ bookings'[j].totalAmount # bookings[i].totalAmount)
          => bookings'[j].serviceId # bookings[i].serviceId]_vars

----------------------------------------------------------------------------
(* Revenue statistics (OperationsPage).  A date label is <<year, month, day>>;
   new Date('YYYY-MM-DD') is midnight UTC of that day, while getFullYear,
   getMonth, getDay, setDate and setHours work in the local time of the
   browser, tz minutes ahead of UTC.  Instants are minutes since
   2023-01-01T00:00Z. *)

EpochYear == 2023

isLeapYear(y) == (y % 4 = 0 /\ y % 100 # 0) \/ y % 400 = 0

daysInMonth(y, m) ==
    IF m = 2 THEN (IF isLeapYear(y) THEN 29 ELSE 28)
    ELSE IF m \in {4, 6, 9, 11} THEN 30 ELSE 31

RECURSIVE daysBeforeYear(_)
daysBeforeYear(y) ==
    IF y <= EpochYear THEN 0 ELSE daysBeforeYear(y - 1) + (IF isLeapYear(y - 1) THEN 366 ELSE 365)

RECURSIVE daysBeforeMonth(_, _)
daysBeforeMonth(y, m) ==
    IF m <= 1 THEN 0 ELSE daysBeforeMonth(y, m - 1) + daysInMonth(y, m - 1)

(* days from 2023-01-01 to the date *)
dayNumber(date) == daysBeforeYear(date[1]) + daysBeforeMonth(date[1], date[2]) + date[3] - 1

CalendarDates ==
    {date \in (EpochYear..(EpochYear + 1)) \X (1..12) \X (1..31) :
        date[3] <= daysInMonth(date[1], date[2])}

(* the date whose day number is n *)
dateOfDay(n) == CHOOSE date \in CalendarDates : dayNumber(date) = n

MinutesPerDay == 1440

(* new Date(label).getTime() *)
dateGetTime(label) == dayNumber(label) * MinutesPerDay

(* the local calendar day an instant falls on *)
localDay(time, tz) == (time + tz) \div MinutesPerDay

(* Date.prototype.getDay: 0 is Sunday; 2023-01-01 was a Sunday *)
getDay(time, tz) == localDay(time, tz) % 7

getMonth(time, tz) == dateOfDay(localDay(time, tz))[2]

getFullYear(time, tz) == dateOfDay(localDay(time, tz))[1]

(* local midnight of a local calendar day, as an instant *)
localMidnight(day, tz) == day * MinutesPerDay - tz

RECURSIVE sumTotalAmount(_)
sumTotalAmount(list) ==
    IF list = <<>> THEN 0
    ELSE (IF Head(list).totalAmount = Undef THEN 0 ELSE Head(list).totalAmount)
         + sumTotalAmount(Tail(list))

(* monday.getTime() of revenueStats *)
weekMonday(tz) ==
    LET selDate == dateGetTime(currentDate)
        day == IF getDay(selDate, tz) = 0 THEN 7 ELSE getDay(selDate, tz)
    IN  localMidnight(localDay(selDate, tz) - (day - 1), tz)

(* sunday.getTime() of revenueStats: 23:59:59.999 six days later *)
weekSunday(tz) == weekMonday(tz) + 6 * MinutesPerDay + (MinutesPerDay - 1)

inWeekBucket(label, tz) ==
    dateGetTime(label) >= weekMonday(tz) /\ dateGetTime(label) <= weekSunday(tz)

inMonthBucket(label, tz) ==
    /\ getMonth(dateGetTime(label), tz) = getMonth(dateGetTime(currentDate), tz)
    /\ getFullYear(dateGetTime(label), tz) = getFullYear(dateGetTime(currentDate), tz)

inYearBucket(label, tz) ==
    getFullYear(dateGetTime(label), tz) = getFullYear(dateGetTime(currentDate), tz)

revenueStats(tz) ==
    LET completed == SelectSeq(bookings, LAMBDA b : b.status = COMPLETED)
    IN  [day |-> sumTotalAmount(SelectSeq(completed, LAMBDA b : b.date = currentDate)),
         week |-> sumTotalAmount(SelectSeq(completed, LAMBDA b : inWeekBucket(b.date, tz))),
         month |-> sumTotalAmount(SelectSeq(completed, LAMBDA b : inMonthBucket(b.date, tz))),
         year |-> sumTotalAmount(SelectSeq(completed, LAMBDA b : inYearBucket(b.date, tz)))]

(* offsets of the browser's local time from UTC, in minutes *)
TimeZones == {-300, 0, 420}

(* the reference dates and booking dates the statistics are driven with:
   the ends of three consecutive weeks, a month start and a year end *)
RevenueDates ==
    <<  <<2023, 12, 31>>, <<2024, 1, 1>>, <<2024, 1, 7>>, <<2024, 1, 8>>,
        <<2024, 1, 14>>, <<2024, 1, 15>>, <<2024, 2, 1>> >>

RECURSIVE pow3(_)
pow3(k) == IF k = 0 THEN 1 ELSE 3 * pow3(k - 1)

(* one booking per date and status; the amount tells the dates apart *)
RevenueShape(k, status) ==
    [service_id |-> "s4", staff_id |-> Null, staff_ids |-> <<"e2">>,
     date |-> RevenueDates[k], time |-> <<10, 0>>, duration |-> 60,
     status |-> status, total_amount |-> 1000 * pow3(k), discount |-> 0]

MaxRevenueRows == 2

RevenueStores ==
    UNION {{[i \in 1..n |-> seedRow(RevenueShape(f[i][1], f[i][2]), i)] :
               f \in [1..n -> (DOMAIN RevenueDates) \X {IN_PROGRESS, COMPLETED}]} :
           n \in 0..MaxRevenueRows}

InitRevenue ==
    /\ store \in RevenueStores
    /\ bookings = [i \in DOMAIN store |-> mapRow(store[i])]
    /\ net = <<>>
    /\ nreq = 0
    /\ page = "ops"
    /\ services = INITIAL_SERVICES
    /\ parked = NoSession
    /\ currentDate \in Range(RevenueDates)
    /\ isModalOpen = FALSE
    /\ isEditing = FALSE
    /\ currentId = NoId
    /\ formData = INITIAL_FORM_DATA
    /\ dialog = <<>>
    /\ filterStartTime = <<10, 0>>
    /\ filterEndTime = <<22, 0>>
    /\ showAvailableOnly = FALSE

SetReferenceDate == \E d \in Range(RevenueDates) : setCurrentDate(d)

NextRevenue ==
    \/ SetReferenceDate
    \/ QuickAction
    \/ StoreApply
    \/ StoreReject
    \/ UpdateBookingReturns

SpecRevenue == InitRevenue /\ [][NextRevenue]_vars

(* the weekday of a date label, Monday 1 to Sunday 7 *)
weekdayOf(label) == IF dayNumber(label) % 7 = 0 THEN 7 ELSE dayNumber(label) % 7

(* the day number of the Monday on or before the date *)
mondayOnOrBefore(label) == dayNumber(label) - (weekdayOf(label) - 1)

sameWeek(label) ==
    /\ dayNumber(label) >= mondayOnOrBefore(currentDate)
    /\ dayNumber(label) <= mondayOnOrBefore(currentDate) + 6

completedIn(inBucket(_)) ==
    sumTotalAmount(SelectSeq(bookings, LAMBDA b : b.status = COMPLETED /\ inBucket(b.date)))

onReferenceDay(label) == label = currentDate

sameMonth(label) == label[1] = currentDate[1] /\ label[2] = currentDate[2]

sameYear(label) == label[1] = currentDate[1]

(* C17: each of the day, week, month and year revenue figures is the sum of
   totalAmount over exactly the Completed bookings whose date lies in that
   bucket of the reference date; bookings in any other status add nothing. *)
C17_RevenueSumsCompletedInBucket ==
    \A tz \in TimeZones :
        revenueStats(tz) = [day |-> completedIn(onReferenceDay),
                            week |-> completedIn(sameWeek),
                            month |-> completedIn(sameMonth),
                            year |-> completedIn(sameYear)]

(* C18: for every reference date the week bucket is the seven days from the
   Monday on or before it through the following Sunday, so a Sunday
   reference date lies in the week that began six days earlier and the
   reference date is always inside its own week. *)
C18_WeekIsMondayThroughSunday ==
    \A tz \in TimeZones :
        /\ inWeekBucket(currentDate, tz)
        /\ \A label \in CalendarDates :
              dayNumber(label) \in (dayNumber(currentDate) - 8)..(dayNumber(currentDate) + 8)
                  => (inWeekBucket(label, tz) <=> sameWeek(label))

----------------------------------------------------------------------------
(* Status changes through the edit form *)

(* a store of up to two bookings, one status each *)
StatusStores ==
    UNION {{[i \in 1..n |-> seedRow([SeedShapes[1] EXCEPT !.status = f[i]], i)] :
               f \in [1..n -> Statuses]} : n \in 1..2}

InitStatus ==
    /\ store \in StatusStores
    /\ bookings = [i \in DOMAIN store |-> mapRow(store[i])]
    /\ net = <<>>
    /\ nreq = 0
    /\ page \in Pages
    /\ services = INITIAL_SERVICES
    /\ parked = NoSession
    /\ currentDate = Today
    /\ isModalOpen = FALSE
    /\ isEditing = FALSE
    /\ currentId = NoId
    /\ formData = INITIAL_FORM_DATA
    /\ dialog = <<>>
    /\ filterStartTime = <<10, 0>>
    /\ filterEndTime = <<22, 0>>
    /\ showAvailableOnly = FALSE

NextStatus ==
    \/ OpenEdit
    \/ CloseModal
    \/ SetStatus
    \/ Submit
    \/ QuickAction
    \/ StoreApply
    \/ StoreReject
    \/ UpdateBookingReturns

SpecStatus == InitStatus /\ [][NextStatus]_vars

(* the edit form can be moved to the given status *)
canSelect(st) == ENABLED (SetStatus /\ formData'.status = st)

(* C19 as stated: in the edit form of a booking every status other than
   the one shown can be chosen, Pending included, whatever the booking's
   status is. *)
C19_EveryStatusSelectable ==
    (isModalOpen /\ isEditing) =>
        \A st \in Statuses \ {formData.status} : canSelect(st)

(* C19, amended: in the edit form of a booking every status but Pending can
   be chosen, whatever the booking's status is (Completed and Cancelled
   included), and Pending can not be chosen. *)
C19_EveryStatusButPendingSelectable ==
    (isModalOpen /\ isEditing) =>
        \A st \in Statuses \ {formData.status} : canSelect(st) <=> st # PENDING

(* the edit form of a Completed booking, moved back to Confirmed *)
C19_Witness ==
    /\ isModalOpen
    /\ isEditing
    /\ formData.status = CONFIRMED
    /\ \E k \in DOMAIN bookings :
          bookings[k].id = currentId /\ bookings[k].status \in {COMPLETED, CANCELLED}

----------------------------------------------------------------------------
(* Two operators.  Each operator's browser runs its own Dashboard and page
   against the one store; the session in focus is held in the variables,
   the other is parked, and switchOperator moves the focus, so that the
   steps of the two sessions interleave in every order. *)

session ==
    [bookings |-> bookings, net |-> net, nreq |-> nreq, page |-> page,
     services |-> services, currentDate |-> currentDate,
     isModalOpen |-> isModalOpen, isEditing |-> isEditing,
     currentId |-> currentId, formData |-> formData, dialog |-> dialog,
     filterStartTime |-> filterStartTime, filterEndTime |-> filterEndTime,
     showAvailableOnly |-> showAvailableOnly]

switchOperator ==
    /\ parked' = session
    /\ bookings' = parked.bookings
    /\ net' = parked.net
    /\ nreq' = parked.nreq
    /\ page' = parked.page
    /\ services' = parked.services
    /\ currentDate' = parked.currentDate
    /\ isModalOpen' = parked.isModalOpen
    /\ isEditing' = parked.isEditing
    /\ currentId' = parked.currentId
    /\ formData' = parked.formData
    /\ dialog' = parked.dialog
    /\ filterStartTime' = parked.filterStartTime
    /\ filterEndTime' = parked.filterEndTime
    /\ showAvailableOnly' = parked.showAvailableOnly
    /\ UNCHANGED store

SwitchOperator == switchOperator

(* the rooms already taken at 10:00 when the two sessions load the store *)
OperatorStores ==
    {[i \in 1..n |-> seedRow(SeedShapes[1], i)] : n \in (TOTAL_ROOMS - 2)..TOTAL_ROOMS}

InitOperators ==
    /\ store \in OperatorStores
    /\ bookings = [i \in DOMAIN store |-> mapRow(store[i])]
    /\ net = <<>>
    /\ nreq = 0
    /\ page = "ops"
    /\ services = INITIAL_SERVICES
    /\ currentDate = Today
    /\ isModalOpen = FALSE
    /\ isEditing = FALSE
    /\ currentId = NoId
    /\ formData = INITIAL_FORM_DATA
    /\ dialog = <<>>
    /\ filterStartTime = <<10, 0>>
    /\ filterEndTime = <<22, 0>>
    /\ showAvailableOnly = FALSE
    /\ parked = session

NextOperators ==
    \/ SwitchOperator
    \/ OpenAdd
    \/ CloseModal
    \/ SetTime
    \/ ServiceChange
    \/ Submit
    \/ StoreApply
    \/ StoreReject
    \/ AddBookingReturns

SpecOperators == InitOperators /\ [][NextOperators]_vars

(* blocking rows of a list that overlap the window the form asks for *)
blockingInWindow(rows) ==
    {i \in DOMAIN rows :
        /\ rows[i].date = formData.date
        /\ rows[i].status \in BlockingStatuses
        /\ timeToMinutes(rows[i].time) < timeToMinutes(formData.time) + selectedService.duration
        /\ timeToMinutes(formData.time) < timeToMinutes(rows[i].time) + rows[i].duration}

(* the step is the submit of a new blocking booking by the operator in focus *)
createSubmitted ==
    /\ parked' = parked
    /\ isModalOpen /\ ~isEditing
    /\ formData.status \in BlockingStatuses
    /\ Len(net') = Len(net) + 1
    /\ net'[Len(net')].op = "insert"

(* C20: a create is admitted on the submitting operator's own in-memory
   collection alone: it is sent without a room-full warning exactly when
   fewer than TOTAL_ROOMS blocking bookings of that collection overlap the
   slot, whatever the store holds by then, and nothing in the create path
   compares the collection with the store. *)
C20_CreateCheckedAgainstOwnSnapshot ==
    [][createSubmitted =>
          (dialog' = <<>> <=> Cardinality(blockingInWindow(bookings)) < TOTAL_ROOMS)]_vars

(* both operators loaded four bookings at 10:00, both created a fifth without
   a room-full warning, and the store now holds six for the five rooms *)
C20_Witness ==
    /\ net = <<>> /\ parked.net = <<>>
    /\ nreq = 1 /\ parked.nreq = 1
    /\ dialog = <<>> /\ parked.dialog = <<>>
    /\ Len(bookings) = TOTAL_ROOMS /\ Len(parked.bookings) = TOTAL_ROOMS
    /\ Cardinality({i \in DOMAIN store :
           /\ store[i].date = Today /\ store[i].time = <<10, 0>>
           /\ store[i].status \in BlockingStatuses}) = TOTAL_ROOMS + 1

----------------------------------------------------------------------------
(* The slot sequence *)

(* the slots the time select of the mounted page lists *)
pageSlots == IF page = "ops" THEN ALL_TIME_SLOTS ELSE TIME_SLOTS

(* C21: the slot sequence is strictly increasing, starts at 10:00, steps by
   exactly 10 minutes, ends with exactly 22:00 (73 entries, nothing after
   22:00), and is the same sequence in the booking page and the operations
   page. *)
C21_SlotSequence ==
    /\ Len(pageSlots) = 73
    /\ pageSlots[1] = <<10, 0>>
    /\ pageSlots[Len(pageSlots)] = <<22, 0>>
    /\ \A k \in 1..(Len(pageSlots) - 1) :
          timeToMinutes(pageSlots[k + 1]) = timeToMinutes(pageSlots[k]) + 10
    /\ \A k \in DOMAIN pageSlots :
          pageSlots[k][2] \in 0..59 /\ timeToMinutes(pageSlots[k]) <= 22 * 60
    /\ ALL_TIME_SLOTS = TIME_SLOTS

(* the form of either page, open at a time its select lists *)
C21_Witness ==
    /\ isModalOpen
    /\ formData.time = pageSlots[4]
    /\ SlotIndex(formData.time) = 4

----------------------------------------------------------------------------
(* Staff carried by a submitted booking *)

(* C22: every booking accepted by submit carries between 0 and N assigned
   staff ids, N the staffCount of its service (N = 0 included), and its
   primary staffId is the first entry of that list, or null when the list
   is empty. *)
C22_StaffWithinServiceCount ==
    \A i \in DOMAIN net :
        net[i].origin = "form" =>
            LET b == net[i].booking
            IN  /\ Len(b.staffIds) <= services[b.serviceId].staffCount
                /\ b.staffId = (IF Len(b.staffIds) > 0 THEN b.staffIds[1] ELSE Null)

----------------------------------------------------------------------------
(* A session that does not wait for the store: the buttons and the form stay
   usable while a write is in flight, so a second write can be issued before
   the first one is acknowledged. *)

BusyWrites == 2         \* writes issued in a session that does not wait for the store

InitBusy ==
    /\ store \in StatusStores
    /\ bookings = [i \in DOMAIN store |-> mapRow(store[i])]
    /\ net = <<>>
    /\ nreq = MaxWrites - BusyWrites
    /\ page \in Pages
    /\ services = INITIAL_SERVICES
    /\ parked = NoSession
    /\ currentDate = Today
    /\ isModalOpen = FALSE
    /\ isEditing = FALSE
    /\ currentId = NoId
    /\ formData = INITIAL_FORM_DATA
    /\ dialog = <<>>
    /\ filterStartTime = <<10, 0>>
    /\ filterEndTime = <<22, 0>>
    /\ showAvailableOnly = FALSE

NextQuick ==
    \/ QuickAction
    \/ StoreApply
    \/ StoreReject
    \/ UpdateBookingReturns

SpecQuick == InitBusy /\ [][NextQuick]_vars

(* the moves the quick-action buttons are meant to make *)
ForwardMoves ==
    {<<PENDING, CONFIRMED>>, <<CONFIRMED, IN_PROGRESS>>, <<IN_PROGRESS, COMPLETED>>,
     <<PENDING, CANCELLED>>, <<CONFIRMED, CANCELLED>>}

(* C23: using only the quick-action buttons, a booking's status moves only
   along Pending -> Confirmed -> InProgress -> Completed or from Pending or
   Confirmed to Cancelled; Completed and Cancelled are terminal; and a quick
   action changes the status and no other field of the in-memory booking. *)
C23_QuickActionsMoveForward ==
    [][\A i \in DOMAIN bookings : \A j \in DOMAIN bookings' :
          (bookings'[j].id = bookings[i].id /\ bookings'[j] # bookings[i]) =>
              /\ <<bookings[i].status, bookings'[j].status>> \in ForwardMoves
              /\ bookings'[j] = [bookings[i] EXCEPT !.status = bookings'[j].status]]_vars

----------------------------------------------------------------------------
(* The toolbar suggestion and the staff *)

(* some employee has no blocking booking of the displayed date in [start, end) *)
someStaffFree(start, end) ==
    \E emp \in activeEmployees :
        \A i \in DOMAIN bookings :
            (/\ bookings[i].date = currentDate
             /\ bookings[i].status \in BlockingStatuses
             /\ emp \in Range(bookings[i].staffIds) \cup {bookings[i].staffId})
                => ~overlaps(start, end, bookingStart(bookings[i]), bookingEnd(bookings[i]))

(* a room and a staff member are free at slot k for the filter window's length *)
slotHasRoomAndStaff(k) ==
    LET sTime == timeToMinutes(ALL_TIME_SLOTS[k])
        duration == timeToMinutes(filterEndTime) - timeToMinutes(filterStartTime)
    IN  checkAvailability(sTime, sTime + duration) /\ someStaffFree(sTime, sTime + duration)

(* C24: when the toolbar computes a suggestion (the filter is on and leaves
   no room), it is the first slot after the filter start at which at least
   one room and at least one staff member remain free for the length of the
   filter window, and none when no later slot has both. *)
C24_SuggestionHasRoomAndStaff ==
    (showAvailableOnly /\ filteredTimelineRooms = {} /\ SlotIndex(filterStartTime) # 0) =>
        LET later == {k \in DOMAIN ALL_TIME_SLOTS :
                         k > SlotIndex(filterStartTime) /\ slotHasRoomAndStaff(k)}
        IN  IF later = {} THEN nextAvailableSuggestion = NoTime
            ELSE /\ nextAvailableSuggestion # NoTime
                 /\ SlotIndex(nextAvailableSuggestion) \in later
                 /\ \A k \in later : SlotIndex(nextAvailableSuggestion) <= k

----------------------------------------------------------------------------
(* Bookings the allocation leaves without a room *)

(* the other bookings of the timeline that are in progress when b starts *)
inProgressAtStartOf(tb, i) ==
    {j \in DOMAIN tb \ {i} :
        bookingStart(tb[j]) <= bookingStart(tb[i]) /\ bookingStart(tb[i]) < bookingEnd(tb[j])}

(* C25: the room allocation leaves a non-cancelled booking of a date without
   a room only if at least TOTAL_ROOMS other non-cancelled bookings of that
   date are in progress at its start time; so when no more than TOTAL_ROOMS
   are ever simultaneous, every booking is given a room. *)
C25_UnallocatedOnlyWhenRoomsTaken ==
    \A d \in Dates :
        LET alloc == roomAllocationsOn(d)
            tb == timelineBookingsOn(d)
        IN  \A i \in DOMAIN tb :
                tb[i].id \notin DOMAIN alloc =>
                    Cardinality(inProgressAtStartOf(tb, i)) >= TOTAL_ROOMS

(* five bookings hold the rooms, a sixth is left without one, and a booking
   that starts when the first ones end is given a room again *)
C25_Witness ==
    LET alloc == roomAllocations
        tb == timelineBookings
    IN  /\ \E i \in DOMAIN tb : tb[i].id \notin DOMAIN alloc
        /\ \E i \in DOMAIN tb : tb[i].id \in DOMAIN alloc /\ tb[i].time = <<10, 30>>

----------------------------------------------------------------------------
(* An operator who never confirms a room-full override *)

(* collections such an operator can have built from an empty one: up to
   TOTAL_ROOMS bookings at 10:00 and one more that was taken through to
   Completed before the rooms filled up *)
NoOverrideStores ==
    {[i \in 1..(c[1] + c[2]) |->
          seedRow(IF i <= c[1] THEN SeedShapes[2] ELSE SeedShapes[1], i)] :
        c \in (0..1) \X (0..TOTAL_ROOMS)}

InitNoOverride ==
    /\ store \in NoOverrideStores
    /\ bookings = [i \in DOMAIN store |-> mapRow(store[i])]
    /\ net = <<>>
    /\ nreq = 0
    /\ page = "ops"
    /\ services = INITIAL_SERVICES
    /\ parked = NoSession
    /\ currentDate = Today
    /\ isModalOpen = FALSE
    /\ isEditing = FALSE
    /\ currentId = NoId
    /\ formData = INITIAL_FORM_DATA
    /\ dialog = <<>>
    /\ filterStartTime = <<10, 0>>
    /\ filterEndTime = <<22, 0>>
    /\ showAvailableOnly = FALSE

(* window.confirm is answered with Cancel whenever it is shown *)
SubmitNoOverride == handleSubmit(FALSE)

NextNoOverride ==
    \/ OpenAdd
    \/ OpenEdit
    \/ CloseModal
    \/ SetTime
    \/ SetStatus
    \/ ServiceChange
    \/ SubmitNoOverride
    \/ QuickAction
    \/ StoreApply
    \/ StoreReject
    \/ AddBookingReturns
    \/ UpdateBookingReturns

SpecNoOverride == InitNoOverride /\ [][NextNoOverride]_vars

(* the blocking bookings of the collection in progress at minute t of a date *)
blockingAt(d, t) ==
    {i \in DOMAIN bookings :
        /\ bookings[i].date = d
        /\ bookings[i].status \in BlockingStatuses
        /\ bookingStart(bookings[i]) <= t /\ t < bookingEnd(bookings[i])}

(* C26: if the operator never confirms a room-full override, no instant of
   any date has more than TOTAL_ROOMS blocking bookings in progress, after
   any sequence of creations, form edits and status changes made through
   the operations page. *)
C26_NeverOverCapacityWithoutOverride ==
    \A d \in Dates : \A i \in DOMAIN bookings :
        Cardinality(blockingAt(d, bookingStart(bookings[i]))) <= TOTAL_ROOMS

----------------------------------------------------------------------------
(* Two updates of one booking in flight *)

(* both writes succeed: the store rejects nothing *)
NextUpdates ==
    \/ OpenEdit
    \/ CloseModal
    \/ SetStatus
    \/ SetTime
    \/ Submit
    \/ QuickAction
    \/ StoreApply
    \/ UpdateBookingReturns

SpecUpdates == InitBusy /\ [][NextUpdates]_vars

(* the in-memory booking shows what the store holds for it, in every field
   an update writes *)
showsStoreRecord(b) ==
    LET row == store[b.id]
    IN  /\ b.serviceId = row.service_id
        /\ b.staffIds = row.staff_ids
        /\ b.date = row.date
        /\ b.time = row.time
        /\ b.duration = row.duration
        /\ b.status = row.status
        /\ b.totalAmount = row.total_amount

(* C27: when two updates of the same booking were in flight at once and both
   succeeded, then once no write is in flight the in-memory booking equals
   the record held by the store, whatever order the acknowledgements
   arrived in. *)
C27_SettledUpdatesMatchStore ==
    net = <<>> => \A k \in DOMAIN bookings : showsStoreRecord(bookings[k])

----------------------------------------------------------------------------
(* Booking codes.  A code BKnnn is kept as its number nnn. *)

NextCodes ==
    \/ OpenAdd
    \/ OpenEdit
    \/ CloseModal
    \/ ServiceChange
    \/ Submit
    \/ StoreApply
    \/ StoreReject
    \/ AddBookingReturns
    \/ UpdateBookingReturns

SpecCodes == InitBusy /\ [][NextCodes]_vars

(* C28: after any sequence of creations and form edits, including a creation
   submitted while an earlier one is in flight and a creation that follows a
   form edit of the highest-numbered booking, no two bookings of the
   in-memory collection carry the same code, and each newly generated code's
   number is greater than that of every booking created before it. *)
C28_CodesUniqueAndIncreasing ==
    /\ \A i, j \in DOMAIN bookings :
          (i # j /\ bookings[i].code # Undef) => bookings[i].code # bookings[j].code
    /\ \A i, j \in DOMAIN store : i < j => store[i].code < store[j].code

----------------------------------------------------------------------------
(* What an unavailable window means *)

(* the bookings the room check is about that are in progress at minute t *)
simultaneousAt(t) ==
    {i \in DOMAIN bookings :
        /\ bookings[i].date = formData.date
        /\ notEdited(bookings[i])
        /\ bookings[i].status \in BlockingStatuses
        /\ bookingStart(bookings[i]) <= t /\ t < bookingEnd(bookings[i])}

(* C29: getRoomAvailability reports a window unavailable only if, at some
   instant inside the window, at least TOTAL_ROOMS blocking bookings of that
   date, other than the one being edited, are in progress together. *)
C29_UnavailableOnlyWhenRoomsTakenTogether ==
    \A checkTime \in CheckTimes \cup {formData.time} :
        \A duration \in CheckDurations :
            ~getRoomAvailability(checkTime, duration).isAvailable =>
                \E t \in timeToMinutes(checkTime)..(timeToMinutes(checkTime) + duration - 1) :
                    Cardinality(simultaneousAt(t)) >= TOTAL_ROOMS

----------------------------------------------------------------------------
(* A room for every booking the room check admitted *)

(* collections in which every booking has a room: one Completed booking at
   most and fewer than TOTAL_ROOMS Confirmed ones, all at 10:00 *)
AdmittedStores ==
    {[i \in 1..(c[1] + c[2]) |->
          seedRow(IF i <= c[1] THEN SeedShapes[2] ELSE SeedShapes[1], i)] :
        c \in (0..1) \X (0..(TOTAL_ROOMS - 1))}

InitAdmitted ==
    /\ store \in AdmittedStores
    /\ bookings = [i \in DOMAIN store |-> mapRow(store[i])]
    /\ net = <<>>
    /\ nreq = 0
    /\ page = "ops"
    /\ services = INITIAL_SERVICES
    /\ parked = NoSession
    /\ currentDate = Today
    /\ isModalOpen = FALSE
    /\ isEditing = FALSE
    /\ currentId = NoId
    /\ formData = INITIAL_FORM_DATA
    /\ dialog = <<>>
    /\ filterStartTime = <<10, 0>>
    /\ filterEndTime = <<22, 0>>
    /\ showAvailableOnly = FALSE

(* creations only, none of them overridden *)
NextAdmitted ==
    \/ OpenAdd
    \/ CloseModal
    \/ SetDate
    \/ SetTime
    \/ ServiceChange
    \/ SubmitNoOverride
    \/ StoreApply
    \/ StoreReject
    \/ AddBookingReturns

SpecAdmitted == InitAdmitted /\ [][NextAdmitted]_vars

(* C30: a booking created at a slot for which getRoomAvailability reported
   available (no override was needed, and none was confirmed before) is
   given a room index by the room allocation whenever its date is
   displayed: with no override, every booking of a timeline has a room. *)
C30_AdmittedBookingGetsRoom ==
    \A d \in Dates :
        LET alloc == roomAllocationsOn(d)
            tb == timelineBookingsOn(d)
        IN  \A i \in DOMAIN tb : tb[i].id \in DOMAIN alloc

====
